---------------------------- MODULE Spec2Model ----------------------------
(***************************************************************************)
(* Model of the Aadhar data pipeline: the three CSV loaders                *)
(* (backend.load_df_from_folder, frontend.get_df, app.read_folder), the   *)
(* backend's query endpoints and the dashboard's derived computations.    *)
(*                                                                         *)
(* A text is a sequence of one-character strings.  A cell of a DataFrame  *)
(* is a record [t, n, s]: t is the kind ("num", "str", "nan", "date",     *)
(* "nat"), n the number (or the date as yyyy*10000+mm*100+dd), s the text.*)
(* A DataFrame is [columns, rows]: the column labels in order and the     *)
(* rows, each a sequence of cells aligned with the columns.               *)
(***************************************************************************)
EXTENDS Integers, Sequences, FiniteSets, TLC

VARIABLES
    prog,           \* which program runs: "backend", "frontend", "app", "names"
    pc,             \* position of the program
    files,          \* the CSV files glob found for the category being loaded
    i,              \* index of the next file of the loader's for-loop
    df_list,        \* the loader's df_list
    df,             \* the loader's return value (then the cleaned Dataset)
    exc,            \* exception that escaped the loader ("none" when none)
    df_enrolment,   \* module-level Datasets of backend.py / frontend.py
    df_demographic,
    df_biometric,
    result,         \* the response of the last query / page computation
    raw1, raw2,     \* two raw column names
    clean1, clean2, \* their clean names
    again1          \* the clean name of clean1

vars == <<prog, pc, files, i, df_list, df, exc, df_enrolment, df_demographic,
          df_biometric, result, raw1, raw2, clean1, clean2, again1>>

-----------------------------------------------------------------------------
(* Bounds *)

MaxNameLen == 3     \* longest raw column name drawn for the name checks
MaxFiles == 3       \* most files in the folder being loaded
MaxQueryFiles == 2  \* most enrolment files behind the Datasets the queries see

-----------------------------------------------------------------------------
(* Texts *)

UpperChars == <<"A","B","C","D","E","F","G","H","I","J","K","L","M",
                "N","O","P","Q","R","S","T","U","V","W","X","Y","Z">>
LowerChars == <<"a","b","c","d","e","f","g","h","i","j","k","l","m",
                "n","o","p","q","r","s","t","u","v","w","x","y","z">>
DigitChars == <<"0","1","2","3","4","5","6","7","8","9">>

\* Python's str.isspace for the characters the model draws
IsSpace(c) == c \in {" ", "\t"}

ToLower(c) ==
    IF \E k \in 1..26 : UpperChars[k] = c
    THEN LowerChars[CHOOSE k \in 1..26 : UpperChars[k] = c]
    ELSE c

\* Series.str.strip(): drop leading and trailing whitespace
RECURSIVE LStrip(_)
LStrip(s) == IF s # <<>> /\ IsSpace(Head(s)) THEN LStrip(Tail(s)) ELSE s

RECURSIVE RStrip(_)
RStrip(s) ==
    IF s # <<>> /\ IsSpace(s[Len(s)]) THEN RStrip(SubSeq(s, 1, Len(s) - 1)) ELSE s

StrStrip(s) == RStrip(LStrip(s))

\* Series.str.lower()
StrLower(s) == [k \in 1..Len(s) |-> ToLower(s[k])]

\* Series.str.replace(' ', '_'): every space character, and only it
StrReplaceSpace(s) == [k \in 1..Len(s) |-> IF s[k] = " " THEN "_" ELSE s[k]]

\* df.columns.astype(str).str.strip().str.lower().str.replace(' ', '_')
CleanName(s) == StrReplaceSpace(StrLower(StrStrip(s)))

\* Python's `sub in s`
Contains(s, sub) ==
    \E k \in 1..(Len(s) - Len(sub) + 1) : SubSeq(s, k, k + Len(sub) - 1) = sub

-----------------------------------------------------------------------------
(* Cells *)

Num(n) == [t |-> "num", n |-> n, s |-> <<>>]
Str(s) == [t |-> "str", n |-> 0, s |-> s]
NaN == [t |-> "nan", n |-> 0, s |-> <<>>]
NaT == [t |-> "nat", n |-> 0, s |-> <<>>]
DateCell(y, m, d) == [t |-> "date", n |-> y * 10000 + m * 100 + d, s |-> <<>>]

IsNull(c) == c.t \in {"nan", "nat"}

-----------------------------------------------------------------------------
(* pd.to_datetime(series, format='%d-%m-%Y', errors='coerce') *)

IsDigit(c) == \E k \in 1..10 : DigitChars[k] = c
DigitVal(c) == (CHOOSE k \in 1..10 : DigitChars[k] = c) - 1
AllDigits(s) == \A k \in 1..Len(s) : IsDigit(s[k])

RECURSIVE NumVal(_)
NumVal(s) == IF s = <<>> THEN 0 ELSE NumVal(SubSeq(s, 1, Len(s) - 1)) * 10 + DigitVal(s[Len(s)])

IsLeap(y) == (y % 4 = 0 /\ y % 100 # 0) \/ y % 400 = 0

DaysInMonth(m, y) ==
    IF m = 2 THEN (IF IsLeap(y) THEN 29 ELSE 28)
    ELSE IF m \in {4, 6, 9, 11} THEN 30 ELSE 31

\* strptime with %d-%m-%Y over the whole text: day, month, 4-digit year, and
\* the day must exist in that month; anything else is coerced to NaT
ParseDateText(s) ==
    LET dashes == {k \in 1..Len(s) : s[k] = "-"}
    IN  IF Cardinality(dashes) # 2 THEN NaT
        ELSE LET p1 == CHOOSE k \in dashes : \A j \in dashes : k <= j
                 p2 == CHOOSE k \in dashes : \A j \in dashes : k >= j
                 dd == SubSeq(s, 1, p1 - 1)
                 mm == SubSeq(s, p1 + 1, p2 - 1)
                 yy == SubSeq(s, p2 + 1, Len(s))
             IN  IF /\ Len(dd) \in {1, 2} /\ Len(mm) \in {1, 2} /\ Len(yy) = 4
                    /\ AllDigits(dd) /\ AllDigits(mm) /\ AllDigits(yy)
                    /\ NumVal(mm) \in 1..12
                    /\ NumVal(dd) \in 1..DaysInMonth(NumVal(mm), NumVal(yy))
                 THEN DateCell(NumVal(yy), NumVal(mm), NumVal(dd))
                 ELSE NaT

ToDatetimeCell(c) == IF c.t = "str" THEN ParseDateText(c.s) ELSE NaT

-----------------------------------------------------------------------------
(* DataFrames *)

\* pd.DataFrame(): no columns, no rows
EmptyFrame == [columns |-> <<>>, rows |-> <<>>]

\* DataFrame.empty: some axis has length 0
IsEmpty(d) == Len(d.columns) = 0 \/ Len(d.rows) = 0

HasCol(d, name) == \E k \in 1..Len(d.columns) : d.columns[k] = name

\* position of the (first) column with this label
ColIndex(d, name) ==
    CHOOSE k \in 1..Len(d.columns) :
        /\ d.columns[k] = name
        /\ \A j \in 1..(k - 1) : d.columns[j] # name

Cell(d, r, name) == d.rows[r][ColIndex(d, name)]

\* df.columns = df.columns.astype(str).str.strip().str.lower().str.replace(' ', '_')
CleanColumns(d) ==
    [d EXCEPT !.columns = [k \in 1..Len(d.columns) |-> CleanName(d.columns[k])]]

date_ == <<"d","a","t","e">>

\* next((col for col in df.columns if 'date' in col), None); 0 stands for None
DateCol(d) ==
    IF \E k \in 1..Len(d.columns) : Contains(d.columns[k], date_)
    THEN CHOOSE k \in 1..Len(d.columns) :
            /\ Contains(d.columns[k], date_)
            /\ \A j \in 1..(k - 1) : ~Contains(d.columns[j], date_)
    ELSE 0

\* df[date_col] = pd.to_datetime(df[date_col], format='%d-%m-%Y', errors='coerce')
ConvertDate(d) ==
    LET c == DateCol(d)
    IN  IF c = 0 THEN d
        ELSE [d EXCEPT !.rows = [r \in 1..Len(d.rows) |->
                 [d.rows[r] EXCEPT ![c] = ToDatetimeCell(@)]]]

\* the loop body's cleaning of one file's frame
CleanFrame(d) == ConvertDate(CleanColumns(d))

RECURSIVE UnionColumns(_, _)
\* the column labels of the frames, each once, in order of first appearance
UnionColumns(frames, acc) ==
    IF frames = <<>> THEN acc
    ELSE LET cs == Head(frames).columns
             new == SelectSeq(cs, LAMBDA c : \A k \in 1..Len(acc) : acc[k] # c)
         IN  UnionColumns(Tail(frames), acc \o new)

\* a frame's rows laid out under the merged columns; a column the frame does
\* not have is missing in its rows (NaT when the merged column holds only
\* datetimes, NaN otherwise)
Reindex(d, cols, frames) ==
    [r \in 1..Len(d.rows) |->
        [k \in 1..Len(cols) |->
            IF HasCol(d, cols[k]) THEN Cell(d, r, cols[k])
            ELSE IF \A f \in 1..Len(frames) :
                       HasCol(frames[f], cols[k]) =>
                          \A q \in 1..Len(frames[f].rows) :
                             Cell(frames[f], q, cols[k]).t \in {"date", "nat"}
                 THEN NaT ELSE NaN]]

RECURSIVE ConcatRows(_, _, _)
ConcatRows(rest, cols, frames) ==
    IF rest = <<>> THEN <<>>
    ELSE Reindex(Head(rest), cols, frames) \o ConcatRows(Tail(rest), cols, frames)

\* pd.concat(df_list, ignore_index=True) if df_list else pd.DataFrame()
Concat(frames) ==
    IF frames = <<>> THEN EmptyFrame
    ELSE LET cols == UnionColumns(frames, <<>>)
         IN  [columns |-> cols, rows |-> ConcatRows(frames, cols, frames)]

\* df.select_dtypes(include=['number']).columns: the columns read as numbers
\* (every value a number or missing)
NumericCols(d) ==
    {k \in 1..Len(d.columns) : \A r \in 1..Len(d.rows) : d.rows[r][k].t \in {"num", "nan"}}

\* if not df.empty: df[numeric_cols] = df[numeric_cols].fillna(0)
FillNumeric(d) ==
    IF IsEmpty(d) THEN d
    ELSE [d EXCEPT !.rows = [r \in 1..Len(d.rows) |->
             [k \in 1..Len(d.columns) |->
                 IF k \in NumericCols(d) /\ d.rows[r][k].t = "nan"
                 THEN Num(0) ELSE d.rows[r][k]]]]

-----------------------------------------------------------------------------
(* Column labels the programs use *)

state_ == <<"s","t","a","t","e">>
district_ == <<"d","i","s","t","r","i","c","t">>
update_date_ == <<"u","p","d","a","t","e","_","d","a","t","e">>
age_0_5_ == <<"a","g","e","_","0","_","5">>
age_5_17_ == <<"a","g","e","_","5","_","1","7">>
age_18_greater_ == <<"a","g","e","_","1","8","_","g","r","e","a","t","e","r">>
demo_age_5_17_ == <<"d","e","m","o","_","a","g","e","_","5","_","1","7">>
bio_age_5_17_ == <<"b","i","o","_","a","g","e","_","5","_","1","7">>
bio_age_17__ == <<"b","i","o","_","a","g","e","_","1","7","_">>
total_ == <<"t","o","t","a","l">>
total_enrolment_ == <<"t","o","t","a","l","_","e","n","r","o","l","m","e","n","t">>
total_biometric_ == <<"t","o","t","a","l","_","b","i","o","m","e","t","r","i","c">>

-----------------------------------------------------------------------------
(* The CSV files the model draws.  A file is what pd.read_csv makes of it:   *)
(* ok = FALSE when read_csv raises (unreadable, not tabular, empty); else   *)
(* its header and its rows.  Within one header no two labels have the same  *)
(* clean name.                                                              *)

HeaderClean == <<state_, district_, date_, age_0_5_, age_5_17_, age_18_greater_>>

\* the same columns, spelled with other letter case and surrounding spaces
HeaderRaw ==
    << <<"S","t","a","t","e"," ">>,
       <<"D","I","S","T","R","I","C","T">>,
       <<" ","d","a","t","e">>,
       <<"A","g","e"," ","0"," ","5">>,
       age_5_17_,
       <<"A","G","E","_","1","8","_","G","R","E","A","T","E","R">> >>

\* a second date column, and no age_18_greater column
HeaderAlt == <<state_, district_, date_, update_date_, age_0_5_, age_5_17_>>

D_01_01_2024 == Str(<<"0","1","-","0","1","-","2","0","2","4">>)
D_02_01_2024 == Str(<<"0","2","-","0","1","-","2","0","2","4">>)
D_31_02_2024 == Str(<<"3","1","-","0","2","-","2","0","2","4">>)

X == Str(<<"X">>)
Y == Str(<<"Y">>)
A == Str(<<"A">>)
B == Str(<<"B">>)

\* logical enrolment rows: state, district, date, update date, three counts
Row1 == [st |-> X, di |-> B, da |-> D_01_01_2024, up |-> D_02_01_2024,
         a0 |-> Num(1), a5 |-> Num(2), a18 |-> Num(0)]
Row2 == [st |-> X, di |-> A, da |-> D_31_02_2024, up |-> D_01_01_2024,
         a0 |-> Num(3), a5 |-> NaN, a18 |-> Num(0)]
Row3 == [st |-> Y, di |-> A, da |-> D_01_01_2024, up |-> D_31_02_2024,
         a0 |-> Num(0), a5 |-> Num(0), a18 |-> Num(0)]
Row4 == [st |-> X, di |-> B, da |-> D_02_01_2024, up |-> D_01_01_2024,
         a0 |-> Num(-1), a5 |-> Num(0), a18 |-> Num(2)]

RowSeqPool == {<<>>, <<Row1, Row2>>, <<Row3, Row4>>}

Corrupt == [ok |-> FALSE, header |-> <<>>, rows |-> <<>>]

EnrolFile(kind, lrows) ==
    [ok |-> TRUE,
     header |-> CASE kind = "clean" -> HeaderClean
                  [] kind = "raw" -> HeaderRaw
                  [] OTHER -> HeaderAlt,
     rows |-> [r \in 1..Len(lrows) |->
                 LET l == lrows[r]
                 IN  IF kind = "alt"
                     THEN <<l.st, l.di, l.da, l.up, l.a0, l.a5>>
                     ELSE <<l.st, l.di, l.da, l.a0, l.a5, l.a18>>]]

FilePool ==
    {Corrupt} \cup {EnrolFile(k, rs) : k \in {"clean", "raw", "alt"}, rs \in RowSeqPool}

FileSeqs(n) == UNION {[1..k -> FilePool] : k \in 0..n}

-----------------------------------------------------------------------------
(* The loaders *)

\* pd.read_csv(file) raises
ReadCsvRaises(file) == ~file.ok

\* pd.read_csv(file)
ReadCsv(file) == [columns |-> file.header, rows |-> file.rows]

\* a loop body without the try/except: the error of read_csv escapes
LoadStepNoExcept(file, list) ==
    IF ReadCsvRaises(file)
    THEN [list |-> list, exc |-> "ParserError"]
    ELSE [list |-> Append(list, CleanFrame(ReadCsv(file))), exc |-> "none"]

\* backend.load_df_from_folder, one iteration of `for file in files`:
\* try: read, clean, append; except Exception: print and pass
LoadStep(file, list) ==
    IF ReadCsvRaises(file)
    THEN [list |-> list, exc |-> "none"]
    ELSE [list |-> Append(list, CleanFrame(ReadCsv(file))), exc |-> "none"]

\* frontend.get_df, one iteration: the same body, `except: pass`
GetDfStep(file, list) ==
    IF ReadCsvRaises(file)
    THEN [list |-> list, exc |-> "none"]
    ELSE [list |-> Append(list, CleanFrame(ReadCsv(file))), exc |-> "none"]

\* app.read_folder, one iteration: df_list.append(pd.read_csv(file)), `except: pass`
ReadFolderStep(file, list) ==
    IF ReadCsvRaises(file)
    THEN [list |-> list, exc |-> "none"]
    ELSE [list |-> Append(list, ReadCsv(file)), exc |-> "none"]

RECURSIVE FoldFiles(_, _, _)
\* the loop over all files with a cleaning loop body (backend / frontend)
FoldFiles(fs, list, cleaning) ==
    IF fs = <<>> THEN list
    ELSE FoldFiles(Tail(fs),
                   IF cleaning THEN LoadStep(Head(fs), list).list
                   ELSE ReadFolderStep(Head(fs), list).list,
                   cleaning)

\* backend: load_df_from_folder(path) followed by the module-level fillna;
\* frontend: get_df(folder_name), which fills inside
LoadedDataset(fs) == FillNumeric(Concat(FoldFiles(fs, <<>>, TRUE)))

\* app.load_data's generic cleaning of one merged frame
GenericCleaning(d) == IF IsEmpty(d) THEN d ELSE CleanColumns(d)

NoSummary ==
    [has_enrolment |-> FALSE, enrolment |-> EmptyFrame,
     has_biometric |-> FALSE, biometric |-> EmptyFrame]

\* a response: the query, its argument, "ok" or the exception that ended it,
\* and the payload (a table, the stats mapping, the state summary, the
\* coverage percentages)
NoResult ==
    [query |-> "none", arg |-> <<>>, status |-> "ok", table |-> EmptyFrame,
     stats |-> <<>>, summary |-> NoSummary, coverage |-> <<>>]
NoName == <<>>

QueryIdle ==
    /\ df_enrolment = EmptyFrame /\ df_demographic = EmptyFrame
    /\ df_biometric = EmptyFrame /\ result = NoResult

NamesIdle ==
    /\ raw1 = NoName /\ raw2 = NoName /\ clean1 = NoName /\ clean2 = NoName
    /\ again1 = NoName

InitLoad ==
    /\ prog \in {"backend", "frontend", "app"}
    /\ pc = "loop"
    /\ files \in FileSeqs(MaxFiles)
    /\ i = 1
    /\ df_list = <<>>
    /\ df = EmptyFrame
    /\ exc = "none"
    /\ QueryIdle /\ NamesIdle

LoaderStep(step) ==
    /\ pc = "loop" /\ i <= Len(files)
    /\ df_list' = step.list
    /\ exc' = step.exc
    /\ pc' = IF step.exc = "none" THEN "loop" ELSE "raised"
    /\ i' = i + 1
    /\ UNCHANGED <<prog, files, df, df_enrolment, df_demographic, df_biometric,
                   result, raw1, raw2, clean1, clean2, again1>>

LoaderLeaves(newdf, newpc) ==
    /\ df' = newdf
    /\ pc' = newpc
    /\ UNCHANGED <<prog, files, i, df_list, exc, df_enrolment, df_demographic,
                   df_biometric, result, raw1, raw2, clean1, clean2, again1>>

\* backend.py: for file in files: try ... except ...
LoadDfFromFolderIter == prog = "backend" /\ LoaderStep(LoadStep(files[i], df_list))

\* backend.py: return pd.concat(df_list, ignore_index=True) if df_list else pd.DataFrame()
LoadDfFromFolderReturn ==
    /\ prog = "backend" /\ pc = "loop" /\ i > Len(files)
    /\ LoaderLeaves(Concat(df_list), "returned")

\* backend.py, module level: fill NaN for numeric columns
BackendFillNumeric ==
    /\ prog = "backend" /\ pc = "returned"
    /\ LoaderLeaves(FillNumeric(df), "done")

\* frontend.py get_df: for file in files: try ... except: pass
GetDfIter == prog = "frontend" /\ LoaderStep(GetDfStep(files[i], df_list))

\* frontend.py get_df: concat, fill NaNs, return df_final
GetDfReturn ==
    /\ prog = "frontend" /\ pc = "loop" /\ i > Len(files)
    /\ LoaderLeaves(FillNumeric(Concat(df_list)), "done")

\* app.py read_folder: for file in files: try ... except: pass
ReadFolderIter == prog = "app" /\ LoaderStep(ReadFolderStep(files[i], df_list))

\* app.py read_folder: return pd.concat(...) if df_list else pd.DataFrame()
ReadFolderReturn ==
    /\ prog = "app" /\ pc = "loop" /\ i > Len(files)
    /\ LoaderLeaves(Concat(df_list), "returned")

\* app.py load_data: generic cleaning of the merged frame
AppGenericCleaning ==
    /\ prog = "app" /\ pc = "returned"
    /\ LoaderLeaves(GenericCleaning(df), "done")

NextLoad ==
    \/ LoadDfFromFolderIter
    \/ LoadDfFromFolderReturn
    \/ BackendFillNumeric
    \/ GetDfIter
    \/ GetDfReturn
    \/ ReadFolderIter
    \/ ReadFolderReturn
    \/ AppGenericCleaning

SpecLoad == InitLoad /\ [][NextLoad]_vars

-----------------------------------------------------------------------------
(* Column-name cleaning on its own *)

NameChars == {"a", "A", " ", "\t"}

RawNames == UNION {[1..k -> NameChars] : k \in 0..MaxNameLen}

InitNames ==
    /\ prog = "names"
    /\ pc = "raw"
    /\ raw1 \in RawNames
    /\ raw2 \in RawNames
    /\ clean1 = NoName /\ clean2 = NoName /\ again1 = NoName
    /\ files = <<>> /\ i = 1 /\ df_list = <<>> /\ df = EmptyFrame /\ exc = "none"
    /\ QueryIdle

\* the loaders' cleaning of the column labels, on two labels
NormalizeNames ==
    /\ prog = "names" /\ pc = "raw"
    /\ clean1' = CleanName(raw1)
    /\ clean2' = CleanName(raw2)
    /\ pc' = "clean"
    /\ UNCHANGED <<prog, files, i, df_list, df, exc, df_enrolment, df_demographic,
                   df_biometric, result, raw1, raw2, again1>>

\* the cleaning applied to a label that is already clean
NormalizeAgain ==
    /\ prog = "names" /\ pc = "clean"
    /\ again1' = CleanName(clean1)
    /\ pc' = "again"
    /\ UNCHANGED <<prog, files, i, df_list, df, exc, df_enrolment, df_demographic,
                   df_biometric, result, raw1, raw2, clean1, clean2>>

NextNames == NormalizeNames \/ NormalizeAgain

SpecNames == InitNames /\ [][NextNames]_vars

-----------------------------------------------------------------------------
(* Aggregation as pandas does it *)

AllChars == DigitChars \o UpperChars \o LowerChars

CharOrd(c) ==
    IF \E k \in 1..Len(AllChars) : AllChars[k] = c
    THEN CHOOSE k \in 1..Len(AllChars) : AllChars[k] = c
    ELSE 0

RECURSIVE TextLess(_, _)
TextLess(a, b) ==
    IF b = <<>> THEN FALSE
    ELSE IF a = <<>> THEN TRUE
    ELSE IF CharOrd(Head(a)) # CharOrd(Head(b)) THEN CharOrd(Head(a)) < CharOrd(Head(b))
    ELSE TextLess(Tail(a), Tail(b))

CellLess(a, b) == IF a.t = "str" /\ b.t = "str" THEN TextLess(a.s, b.s) ELSE a.n < b.n

RECURSIVE KeyLess(_, _)
\* lexicographic order of key tuples
KeyLess(a, b) ==
    IF a = <<>> \/ b = <<>> THEN FALSE
    ELSE IF Head(a) # Head(b) THEN CellLess(Head(a), Head(b))
    ELSE KeyLess(Tail(a), Tail(b))

RECURSIVE SortKeys(_)
SortKeys(S) ==
    IF S = {} THEN <<>>
    ELSE LET m == CHOOSE x \in S : \A y \in S : x = y \/ KeyLess(x, y)
         IN  <<m>> \o SortKeys(S \ {m})

HasCols(d, names) == \A k \in 1..Len(names) : HasCol(d, names[k])

KeyOf(d, r, keys) == [k \in 1..Len(keys) |-> Cell(d, r, keys[k])]

RECURSIVE SumCells(_)
\* Series.sum(): missing values are skipped
SumCells(cells) ==
    IF cells = <<>> THEN 0
    ELSE (IF Head(cells).t = "num" THEN Head(cells).n ELSE 0) + SumCells(Tail(cells))

ColumnSum(d, name) == SumCells([r \in 1..Len(d.rows) |-> Cell(d, r, name)])

\* the rows of group key, in Dataset order
GroupRows(d, keys, key) ==
    SelectSeq([r \in 1..Len(d.rows) |-> r], LAMBDA r : KeyOf(d, r, keys) = key)

\* df.groupby(keys)[values].sum().reset_index(): dropna=True drops the rows
\* with a missing key, sort=True orders the groups by key
GroupSum(d, keys, values) ==
    LET valid == {r \in 1..Len(d.rows) :
                     \A k \in 1..Len(keys) : ~IsNull(Cell(d, r, keys[k]))}
        ks == SortKeys({KeyOf(d, r, keys) : r \in valid})
    IN  [columns |-> keys \o values,
         rows |-> [g \in 1..Len(ks) |->
                     ks[g] \o [v \in 1..Len(values) |->
                        LET rs == GroupRows(d, keys, ks[g])
                        IN  Num(SumCells([q \in 1..Len(rs) |-> Cell(d, rs[q], values[v])]))]]]

RECURSIVE AddCells(_)
\* a + b + ...: element-wise addition of columns, missing if any is missing
AddCells(cells) ==
    IF cells = <<>> THEN Num(0)
    ELSE LET rest == AddCells(Tail(cells))
         IN  IF Head(cells).t = "num" /\ rest.t = "num"
             THEN Num(Head(cells).n + rest.n) ELSE NaN

\* df[name] = df[c1] + df[c2] + ...  (a new last column, or the column replaced)
WithSumColumn(d, name, parts) ==
    LET val(r) == AddCells([k \in 1..Len(parts) |-> Cell(d, r, parts[k])])
    IN  IF HasCol(d, name)
        THEN [d EXCEPT !.rows = [r \in 1..Len(d.rows) |->
                 [d.rows[r] EXCEPT ![ColIndex(d, name)] = val(r)]]]
        ELSE [columns |-> Append(d.columns, name),
              rows |-> [r \in 1..Len(d.rows) |-> Append(d.rows[r], val(r))]]

\* df[df['state'] == state]
FilterState(d, st) ==
    [d EXCEPT !.rows = SelectSeq(d.rows, LAMBDA row : row[ColIndex(d, state_)] = Str(st))]

Perms(n) == {p \in [1..n -> 1..n] : \A a, b \in 1..n : a # b => p[a] # p[b]}

\* a sort that keeps equal totals in the order they came in
SortDescStable(d, name) ==
    LET n == Len(d.rows)
        c == ColIndex(d, name)
    IN  {[d EXCEPT !.rows = [k \in 1..n |-> d.rows[p[k]]]] :
            p \in {q \in Perms(n) :
                     \A a, b \in 1..n : a < b =>
                        \/ d.rows[q[a]][c].n > d.rows[q[b]][c].n
                        \/ d.rows[q[a]][c].n = d.rows[q[b]][c].n /\ q[a] < q[b]}}

\* sort_values(name, ascending=False) with the default kind='quicksort', which
\* is not a stable sort: rows come out by descending value, equal values in
\* whatever order the numpy build leaves them
SortDesc(d, name) ==
    LET n == Len(d.rows)
        c == ColIndex(d, name)
    IN  {[d EXCEPT !.rows = [k \in 1..n |-> d.rows[p[k]]]] :
            p \in {q \in Perms(n) :
                     \A a, b \in 1..n : a < b => d.rows[q[a]][c].n >= d.rows[q[b]][c].n}}

RankLimit == 20

\* DataFrame.head(n)
HeadRows(d, n) ==
    [d EXCEPT !.rows = SubSeq(d.rows, 1, IF Len(d.rows) < n THEN Len(d.rows) ELSE n)]

Pad(n, width) ==
    [k \in 1..width |->
        LET p == width - k
            pow == CASE p = 0 -> 1 [] p = 1 -> 10 [] p = 2 -> 100 [] OTHER -> 1000
        IN  DigitChars[((n \div pow) % 10) + 1]]

\* Series.dt.strftime('%Y-%m-%d')
Strftime(c) ==
    IF c.t = "date"
    THEN Str(Pad(c.n \div 10000, 4) \o <<"-">> \o Pad((c.n \div 100) % 100, 2)
             \o <<"-">> \o Pad(c.n % 100, 2))
    ELSE NaN

-----------------------------------------------------------------------------
(* The Datasets behind the queries *)

HeaderBio == <<state_, bio_age_5_17_, bio_age_17__>>
HeaderDemo == << <<"S","t","a","t","e">>, demo_age_5_17_ >>

BioFile(rows) == [ok |-> TRUE, header |-> HeaderBio, rows |-> rows]
DemoFile(rows) == [ok |-> TRUE, header |-> HeaderDemo, rows |-> rows]

BioFileSeqs ==
    { <<>>,
      <<Corrupt>>,
      <<BioFile(<<>>)>>,
      <<BioFile(<< <<X, Num(1), Num(1)>>, <<Y, Num(2), Num(0)>> >>)>>,
      <<BioFile(<< <<X, Num(5), NaN>> >>), Corrupt, BioFile(<< <<X, Num(3), Num(1)>> >>)>> }

DemoFileSeqs == { <<>>, <<DemoFile(<< <<X, Num(4)>>, <<Y, NaN>> >>)>> }

EnrolCounts == <<age_0_5_, age_5_17_, age_18_greater_>>
BioCounts == <<bio_age_5_17_, bio_age_17__>>

-----------------------------------------------------------------------------
(* backend.py: the endpoints *)

Failed(q, arg, e) == [NoResult EXCEPT !.query = q, !.arg = arg, !.status = e]

Table(q, arg, t) == [NoResult EXCEPT !.query = q, !.arg = arg, !.table = t]

\* @app.get("/stats")
GetStats ==
    IF \/ ~IsEmpty(df_enrolment) /\ ~HasCols(df_enrolment, EnrolCounts)
       \/ ~IsEmpty(df_demographic) /\ ~HasCol(df_demographic, demo_age_5_17_)
       \/ ~IsEmpty(df_biometric) /\ ~HasCol(df_biometric, bio_age_5_17_)
    THEN Failed("get_stats", <<>>, "KeyError")
    ELSE [NoResult EXCEPT
            !.query = "get_stats",
            !.stats =
              [enrolment |->
                 [total_records |-> Len(df_enrolment.rows),
                  age_0_5_total |->
                     IF ~IsEmpty(df_enrolment) THEN ColumnSum(df_enrolment, age_0_5_) ELSE 0,
                  age_5_17_total |->
                     IF ~IsEmpty(df_enrolment) THEN ColumnSum(df_enrolment, age_5_17_) ELSE 0,
                  age_18_greater_total |->
                     IF ~IsEmpty(df_enrolment) THEN ColumnSum(df_enrolment, age_18_greater_) ELSE 0],
               demographic |->
                 [total_records |-> Len(df_demographic.rows),
                  demo_age_5_17_total |->
                     IF ~IsEmpty(df_demographic)
                     THEN ColumnSum(df_demographic, demo_age_5_17_) ELSE 0],
               biometric |->
                 [total_records |-> Len(df_biometric.rows),
                  bio_age_5_17_total |->
                     IF ~IsEmpty(df_biometric)
                     THEN ColumnSum(df_biometric, bio_age_5_17_) ELSE 0]]]

\* @app.get("/analytics/state-summary")
GetStateSummary ==
    IF \/ ~IsEmpty(df_enrolment) /\ ~HasCols(df_enrolment, <<state_>> \o EnrolCounts)
       \/ ~IsEmpty(df_biometric) /\ ~HasCols(df_biometric, <<state_>> \o BioCounts)
    THEN Failed("get_state_summary", <<>>, "KeyError")
    ELSE [NoResult EXCEPT
            !.query = "get_state_summary",
            !.summary =
              [has_enrolment |-> ~IsEmpty(df_enrolment),
               enrolment |->
                  IF ~IsEmpty(df_enrolment)
                  THEN WithSumColumn(GroupSum(df_enrolment, <<state_>>, EnrolCounts),
                                     total_enrolment_, EnrolCounts)
                  ELSE EmptyFrame,
               has_biometric |-> ~IsEmpty(df_biometric),
               biometric |->
                  IF ~IsEmpty(df_biometric)
                  THEN WithSumColumn(GroupSum(df_biometric, <<state_>>, BioCounts),
                                     total_biometric_, BioCounts)
                  ELSE EmptyFrame]]

\* get_trends without its `if df_enrolment.empty: return []`
GetTrendsNoEmptyCheck ==
    IF ~HasCols(df_enrolment, <<date_>> \o EnrolCounts)
    THEN Failed("get_trends", <<>>, "KeyError")
    ELSE LET trend == GroupSum(df_enrolment, <<date_>>, EnrolCounts)
         IN  Table("get_trends", <<>>,
                   [trend EXCEPT !.rows = [r \in 1..Len(trend.rows) |->
                       [trend.rows[r] EXCEPT ![1] = Strftime(@)]]])

\* @app.get("/analytics/trends")
GetTrends ==
    IF IsEmpty(df_enrolment) THEN Table("get_trends", <<>>, EmptyFrame)
    ELSE IF ~HasCols(df_enrolment, <<date_>> \o EnrolCounts)
    THEN Failed("get_trends", <<>>, "KeyError")
    ELSE LET trend == GroupSum(df_enrolment, <<date_>>, EnrolCounts)
         IN  Table("get_trends", <<>>,
                   [trend EXCEPT !.rows = [r \in 1..Len(trend.rows) |->
                       [trend.rows[r] EXCEPT ![1] = Strftime(@)]]])

\* the (state, district) totals of get_district_rankings before the sort
DistrictTotals(state) ==
    LET filtered == IF state # <<>> THEN FilterState(df_enrolment, state) ELSE df_enrolment
    IN  GroupSum(WithSumColumn(filtered, total_, EnrolCounts), <<state_, district_>>, <<total_>>)

\* @app.get("/analytics/district-rankings"): the responses it can give
GetDistrictRankings(state) ==
    IF IsEmpty(df_enrolment) THEN {Table("get_district_rankings", state, EmptyFrame)}
    ELSE IF ~HasCols(df_enrolment, <<state_, district_>> \o EnrolCounts)
    THEN {Failed("get_district_rankings", state, "KeyError")}
    ELSE {Table("get_district_rankings", state, HeadRows(ranked, RankLimit)) :
             ranked \in SortDesc(DistrictTotals(state), total_)}

\* the state filters the model calls get_district_rankings with; <<>> is None
StateArgs == {<<>>, <<"X">>, <<"Y">>, <<"Z">>}

Respond(r) ==
    /\ result' = r
    /\ UNCHANGED <<prog, pc, files, i, df_list, df, exc, df_enrolment, df_demographic,
                   df_biometric, raw1, raw2, clean1, clean2, again1>>

CallGetStats == prog = "backend" /\ pc = "serving" /\ Respond(GetStats)

CallGetStateSummary == prog = "backend" /\ pc = "serving" /\ Respond(GetStateSummary)

CallGetTrends == prog = "backend" /\ pc = "serving" /\ Respond(GetTrends)

CallGetDistrictRankings ==
    /\ prog = "backend" /\ pc = "serving"
    /\ \E state \in StateArgs : \E r \in GetDistrictRankings(state) : Respond(r)

-----------------------------------------------------------------------------
(* frontend.py: the script after load_data_direct() *)

\* total_bio / total_enr * 100 in floating point: a ratio, or inf / nan when
\* the divisor is 0
Percent(numer, denom) ==
    IF denom # 0 THEN [t |-> "num", num |-> numer * 100, den |-> denom]
    ELSE IF numer > 0 THEN [t |-> "inf", num |-> 0, den |-> 0]
    ELSE IF numer < 0 THEN [t |-> "-inf", num |-> 0, den |-> 0]
    ELSE [t |-> "nan", num |-> 0, den |-> 0]

Zero == [t |-> "num", num |-> 0, den |-> 1]

\* "Computed Fields for Analysis": the columns a Dataset lacks for them
ComputedFieldsRaise ==
    \/ ~IsEmpty(df_enrolment) /\ ~HasCols(df_enrolment, EnrolCounts)
    \/ ~IsEmpty(df_biometric) /\ ~HasCols(df_biometric, BioCounts)

\* df_enrolment['total_enrolment'] = ...; df_biometric['total_biometric'] = ...
ComputedFields ==
    /\ prog = "frontend" /\ pc = "loaded"
    /\ df_enrolment' =
          IF ~IsEmpty(df_enrolment) /\ HasCols(df_enrolment, EnrolCounts)
          THEN WithSumColumn(df_enrolment, total_enrolment_, EnrolCounts)
          ELSE df_enrolment
    /\ df_biometric' =
          IF ~ComputedFieldsRaise /\ ~IsEmpty(df_biometric)
          THEN WithSumColumn(df_biometric, total_biometric_, BioCounts)
          ELSE df_biometric
    /\ pc' = IF ComputedFieldsRaise THEN "crashed" ELSE "page"
    /\ UNCHANGED <<prog, files, i, df_list, df, exc, df_demographic, result,
                   raw1, raw2, clean1, clean2, again1>>

\* Series.nunique(): the distinct values that are not missing
NUnique(d, name) ==
    Cardinality({Cell(d, r, name) : r \in {q \in 1..Len(d.rows) : ~IsNull(Cell(d, q, name))}})

\* page "Executive Overview": the KPI row and the trend table
ExecutiveOverview ==
    IF ~IsEmpty(df_enrolment) /\ ~HasCols(df_enrolment, <<state_, date_>>)
    THEN Failed("executive_overview", <<>>, "KeyError")
    ELSE LET total_enr ==
                IF ~IsEmpty(df_enrolment) THEN ColumnSum(df_enrolment, total_enrolment_) ELSE 0
             total_bio ==
                IF ~IsEmpty(df_biometric) THEN ColumnSum(df_biometric, total_biometric_) ELSE 0
         IN  [NoResult EXCEPT
                !.query = "executive_overview",
                !.stats = [total_enr |-> total_enr,
                           total_bio |-> total_bio,
                           total_demo |-> Len(df_demographic.rows),
                           states |-> IF ~IsEmpty(df_enrolment)
                                      THEN NUnique(df_enrolment, state_) ELSE 0],
                !.coverage = << IF total_enr # 0 THEN Percent(total_bio, total_enr) ELSE Zero >>,
                !.table = IF ~IsEmpty(df_enrolment)
                          THEN GroupSum(df_enrolment, <<date_>>, EnrolCounts)
                          ELSE EmptyFrame]

\* pd.merge(enr_agg, bio_agg, on='state', how='inner'): the rows of enr_agg
\* whose state is in bio_agg, each followed by bio_agg's total
MergeOnState(enr_agg, bio_agg) ==
    LET keep == SelectSeq(enr_agg.rows,
                          LAMBDA row : \E b \in 1..Len(bio_agg.rows) : bio_agg.rows[b][1] = row[1])
    IN  [columns |-> <<state_, total_enrolment_, total_biometric_>>,
         rows |-> [r \in 1..Len(keep) |->
                     LET b == CHOOSE q \in 1..Len(bio_agg.rows) : bio_agg.rows[q][1] = keep[r][1]
                     IN  <<keep[r][1], keep[r][2], bio_agg.rows[b][2]>>]]

pending_biometrics_ == <<"p","e","n","d","i","n","g","_","b","i","o","m","e","t","r","i","c","s">>

\* page "Biometric Performance": merged, pending_biometrics, coverage_pct
BiometricPerformance ==
    IF ~IsEmpty(df_biometric) /\ ~IsEmpty(df_enrolment)
    THEN IF ~HasCol(df_biometric, state_) \/ ~HasCol(df_enrolment, state_)
         THEN Failed("biometric_performance", <<>>, "KeyError")
         ELSE LET bio_agg == GroupSum(df_biometric, <<state_>>, <<total_biometric_>>)
                  enr_agg == GroupSum(df_enrolment, <<state_>>, <<total_enrolment_>>)
                  merged == MergeOnState(enr_agg, bio_agg)
              IN  [NoResult EXCEPT
                     !.query = "biometric_performance",
                     !.table =
                        [columns |-> Append(merged.columns, pending_biometrics_),
                         rows |-> [r \in 1..Len(merged.rows) |->
                                     Append(merged.rows[r],
                                            Num(merged.rows[r][2].n - merged.rows[r][3].n))]],
                     !.coverage =
                        [r \in 1..Len(merged.rows) |->
                            Percent(merged.rows[r][3].n, merged.rows[r][2].n)]]
    ELSE [NoResult EXCEPT !.query = "biometric_performance"]

Render(r) ==
    /\ prog = "frontend" /\ pc = "page"
    /\ result' = r
    /\ pc' = "rendered"
    /\ UNCHANGED <<prog, files, i, df_list, df, exc, df_enrolment, df_demographic,
                   df_biometric, raw1, raw2, clean1, clean2, again1>>

PageExecutiveOverview == Render(ExecutiveOverview)

PageBiometricPerformance == Render(BiometricPerformance)

-----------------------------------------------------------------------------

InitQuery ==
    /\ prog \in {"backend", "frontend"}
    /\ pc = IF prog = "backend" THEN "serving" ELSE "loaded"
    /\ files \in FileSeqs(MaxQueryFiles)
    /\ df_enrolment = LoadedDataset(files)
    /\ \E sf \in DemoFileSeqs : df_demographic = LoadedDataset(sf)
    /\ \E bf \in BioFileSeqs : df_biometric = LoadedDataset(bf)
    /\ result = NoResult
    /\ i = 1 /\ df_list = <<>> /\ df = EmptyFrame /\ exc = "none"
    /\ NamesIdle

NextQuery ==
    \/ CallGetStats
    \/ CallGetStateSummary
    \/ CallGetTrends
    \/ CallGetDistrictRankings
    \/ ComputedFields
    \/ PageExecutiveOverview
    \/ PageBiometricPerformance

SpecQuery == InitQuery /\ [][NextQuery]_vars

Init == InitLoad \/ InitNames \/ InitQuery

Next == NextLoad \/ NextNames \/ NextQuery

Spec == Init /\ [][Next]_vars

-----------------------------------------------------------------------------
(* Properties of the loaders (SpecLoad) *)

RECURSIVE SourceRowsFrom(_, _)
\* <<file index, row index>> of every row of every readable file, in order
SourceRowsFrom(fs, f) ==
    IF f > Len(fs) THEN <<>>
    ELSE (IF fs[f].ok THEN [r \in 1..Len(fs[f].rows) |-> <<f, r>>] ELSE <<>>)
         \o SourceRowsFrom(fs, f + 1)

SourceRows == SourceRowsFrom(files, 1)

\* a loaded value is the file's value, its date, or 0 for a missing number
Corresponds(rawc, out) ==
    \/ out = rawc
    \/ out = ToDatetimeCell(rawc)
    \/ rawc = NaN /\ out = Num(0)

\* row k of the Dataset is row r of file f: every value of the file's row is
\* under its column's clean name, and the Dataset's other columns are missing
CarriesRow(k, f, r) ==
    LET file == files[f]
        names == [j \in 1..Len(file.header) |-> CleanName(file.header[j])]
        row == df.rows[k]
    IN  /\ \A j \in 1..Len(names) :
              \E p \in 1..Len(df.columns) :
                  /\ df.columns[p] = names[j]
                  /\ Corresponds(file.rows[r][j], row[p])
        /\ \A p \in 1..Len(df.columns) :
              (\A j \in 1..Len(names) : names[j] # df.columns[p])
                  => (IsNull(row[p]) \/ row[p] = Num(0))

\* C1: whatever files fail to read, no loader raises, and the Dataset it
\* returns holds exactly the rows of the readable files, file by file in glob
\* order and each file's rows in their order in the file; a failing file adds
\* no row and stops nothing.
C1_PartialFailure ==
    /\ exc = "none"
    /\ pc # "raised"
    /\ pc = "done" =>
          LET src == SourceRows
          IN  /\ Len(df.rows) = Len(src)
              /\ \A k \in 1..Len(src) :
                    k <= Len(df.rows) /\ CarriesRow(k, src[k][1], src[k][2])

\* a load is done in which an unreadable file came before a readable one
\* with rows, and another readable file with rows came before it
C1_Witness ==
    /\ pc = "done"
    /\ Len(files) = 3
    /\ files[1].ok /\ files[1].rows # <<>>
    /\ ~files[2].ok
    /\ files[3].ok /\ files[3].rows # <<>>
    /\ Len(df.rows) = Len(files[1].rows) + Len(files[3].rows)

\* C3: in every loader the merged Dataset has one column per clean name: no
\* two columns carry the same label, and every value of a file is found under
\* the clean name of its column, whatever the case and surrounding whitespace
\* of the file's header.
C3_NormalizedBeforeMerge ==
    pc = "done" =>
        /\ \A p, q \in 1..Len(df.columns) : p # q => df.columns[p] # df.columns[q]
        /\ \A k \in 1..Len(SourceRows) :
              LET file == files[SourceRows[k][1]]
                  r == SourceRows[k][2]
              IN  \A j \in 1..Len(file.header) :
                      /\ HasCol(df, CleanName(file.header[j]))
                      /\ Corresponds(file.rows[r][j], Cell(df, k, CleanName(file.header[j])))

\* C5: after loading, every value of every column whose clean name contains
\* "date" is the date its text denotes in DD-MM-YYYY or the missing-date
\* marker.
C5_EveryDateColumnParsed ==
    (pc = "done" /\ prog \in {"backend", "frontend"}) =>
        \A k \in 1..Len(SourceRows) :
            LET file == files[SourceRows[k][1]]
                r == SourceRows[k][2]
            IN  \A j \in 1..Len(file.header) :
                    Contains(CleanName(file.header[j]), date_) =>
                        Cell(df, k, CleanName(file.header[j])) = ToDatetimeCell(file.rows[r][j])

-----------------------------------------------------------------------------
(* Properties of the column-name cleaning (SpecNames) *)

RECURSIVE Collapse(_)
\* every run of whitespace as one space
Collapse(s) ==
    IF s = <<>> THEN <<>>
    ELSE IF IsSpace(Head(s))
    THEN <<" ">> \o Collapse(LStrip(s))
    ELSE <<Head(s)>> \o Collapse(Tail(s))

\* two labels that differ only in letter case and in whitespace
SameUpToCaseAndSpace(a, b) ==
    Collapse(StrLower(StrStrip(a))) = Collapse(StrLower(StrStrip(b)))

\* C4: two raw column names that differ only in letter case and whitespace
\* (around the name, or in the amount or kind of whitespace inside it) get the
\* same clean name, and cleaning a clean name gives it back unchanged.
C4_CaseSpaceInvariant ==
    /\ (pc \in {"clean", "again"} /\ SameUpToCaseAndSpace(raw1, raw2)) => clean1 = clean2
    /\ pc = "again" => again1 = clean1

-----------------------------------------------------------------------------
(* Properties of the queries (SpecQuery) *)

Datasets == <<df_enrolment, df_demographic, df_biometric>>

\* a Dataset that has rows but lacks a column the queries read
SchemaGap ==
    \/ ~IsEmpty(df_enrolment)
          /\ ~HasCols(df_enrolment, <<state_, district_, date_>> \o EnrolCounts)
    \/ ~IsEmpty(df_demographic) /\ ~HasCol(df_demographic, demo_age_5_17_)
    \/ ~IsEmpty(df_biometric) /\ ~HasCols(df_biometric, <<state_>> \o BioCounts)

AllFail(fs) == \A f \in 1..Len(fs) : ~fs[f].ok

\* C2: with no file found, or every file failing, the Dataset is empty; and an
\* empty Dataset never fails a query: get_trends and get_district_rankings
\* answer the empty list, get_state_summary leaves the Dataset's entry out,
\* get_stats reports zero records and zero totals for it, whatever the other
\* Datasets hold (a query fails only on a non-empty Dataset that lacks a
\* column it reads).
C2_EmptyDatasetQueries ==
    /\ AllFail(files) => df_enrolment = EmptyFrame
    /\ result.status # "ok" => SchemaGap
    /\ (result.query \in {"get_trends", "get_district_rankings"} /\ IsEmpty(df_enrolment))
          => result.status = "ok" /\ result.table = EmptyFrame
    /\ (result.query = "get_state_summary" /\ result.status = "ok") =>
          /\ IsEmpty(df_enrolment) =>
                ~result.summary.has_enrolment /\ result.summary.enrolment = EmptyFrame
          /\ IsEmpty(df_biometric) =>
                ~result.summary.has_biometric /\ result.summary.biometric = EmptyFrame
    /\ (result.query = "get_stats" /\ result.status = "ok") =>
          /\ IsEmpty(df_enrolment) =>
                result.stats.enrolment =
                    [total_records |-> 0, age_0_5_total |-> 0, age_5_17_total |-> 0,
                     age_18_greater_total |-> 0]
          /\ IsEmpty(df_demographic) =>
                result.stats.demographic = [total_records |-> 0, demo_age_5_17_total |-> 0]
          /\ IsEmpty(df_biometric) =>
                result.stats.biometric = [total_records |-> 0, bio_age_5_17_total |-> 0]

\* every enrolment file failed, the biometric Dataset has rows, and get_trends
\* has answered
C2_Witness ==
    /\ prog = "backend"
    /\ Len(files) = 2 /\ AllFail(files)
    /\ ~IsEmpty(df_biometric)
    /\ result.query = "get_trends"
    /\ result.status = "ok"

\* C6: a grouped sum drops no row: over get_trends and over get_state_summary's
\* enrolment entry, each count column summed over the output rows equals the
\* column summed over the Dataset's rows (rows with a missing key included),
\* and there are no more output rows than distinct keys.
C6_GroupSumConservation ==
    /\ (result.query = "get_trends" /\ result.status = "ok" /\ ~IsEmpty(df_enrolment)) =>
          /\ \A v \in 1..Len(EnrolCounts) :
                ColumnSum(result.table, EnrolCounts[v]) = ColumnSum(df_enrolment, EnrolCounts[v])
          /\ Len(result.table.rows)
                <= Cardinality({KeyOf(df_enrolment, r, <<date_>>) : r \in 1..Len(df_enrolment.rows)})
    /\ (result.query = "get_state_summary" /\ result.status = "ok" /\ ~IsEmpty(df_enrolment)) =>
          \A v \in 1..Len(EnrolCounts) :
              ColumnSum(result.summary.enrolment, EnrolCounts[v])
                  = ColumnSum(df_enrolment, EnrolCounts[v])

\* C7: for every state in both aggregates, pending is enrolment minus
\* biometric (unclamped), coverage_pct is biometric / enrolment * 100 when the
\* enrolment total is not 0, and with an enrolment total of 0 it is an
\* undefined marker: not 0 and not infinity.
C7_CoverageUndefinedAtZero ==
    (result.query = "biometric_performance" /\ result.status = "ok") =>
          \A r \in 1..Len(result.table.rows) :
              LET row == result.table.rows[r]
              IN  /\ row[4].n = row[2].n - row[3].n
                  /\ row[2].n # 0 =>
                        result.coverage[r] = [t |-> "num", num |-> row[3].n * 100, den |-> row[2].n]
                  /\ row[2].n = 0 => result.coverage[r].t = "nan"

RECURSIVE FirstSeen(_, _, _, _)
\* the distinct keys of a frame in the order its rows first show them
FirstSeen(d, keys, r, acc) ==
    IF r > Len(d.rows) THEN acc
    ELSE LET key == KeyOf(d, r, keys)
         IN  FirstSeen(d, keys, r + 1,
                       IF \E k \in 1..Len(acc) : acc[k] = key THEN acc ELSE Append(acc, key))

\* the (state, district) totals in first-encountered order
TotalsFirstSeen(state) ==
    LET filtered == IF state # <<>> THEN FilterState(df_enrolment, state) ELSE df_enrolment
        t == WithSumColumn(filtered, total_, EnrolCounts)
        ks == FirstSeen(t, <<state_, district_>>, 1, <<>>)
    IN  [columns |-> <<state_, district_, total_>>,
         rows |-> [g \in 1..Len(ks) |->
                     LET rs == GroupRows(t, <<state_, district_>>, ks[g])
                     IN  ks[g] \o <<Num(SumCells([q \in 1..Len(rs) |-> Cell(t, rs[q], total_)]))>>]]

\* C8: get_district_rankings answers the (state, district) groups by
\* descending total, the first 20 of them, groups of equal total in their
\* first-encountered order, and with a state filter only rows of that state.
C8_StableRanking ==
    (result.query = "get_district_rankings" /\ result.status = "ok" /\ ~IsEmpty(df_enrolment)) =>
        /\ \A x \in SortDescStable(TotalsFirstSeen(result.arg), total_) :
              result.table = HeadRows(x, RankLimit)
        /\ result.arg # <<>> =>
              \A r \in 1..Len(result.table.rows) : result.table.rows[r][1] = Str(result.arg)

CountColumns == EnrolCounts \o BioCounts \o <<demo_age_5_17_>>

\* C9: in every Dataset the queries see, every count is a number that is not
\* negative (a missing count is 0).
C9_CountsNonNegative ==
    \A d \in 1..3 : \A c \in 1..Len(CountColumns) :
        HasCol(Datasets[d], CountColumns[c]) =>
            \A r \in 1..Len(Datasets[d].rows) :
                /\ Cell(Datasets[d], r, CountColumns[c]).t = "num"
                /\ Cell(Datasets[d], r, CountColumns[c]).n >= 0

\* C10: once loaded, no step of the program changes a Dataset: its columns,
\* rows and values stay as the loader returned them.
C10_DatasetsNeverModified ==
    [][UNCHANGED <<df_enrolment, df_demographic, df_biometric>>]_vars

=============================================================================
